---- MODULE Spec2Model ----
(***************************************************************************)
(* pg_passwordguard: a check_password_hook for PostgreSQL.                 *)
(*                                                                         *)
(* The model follows src/pg_passwordguard.c.  Strings are sequences of     *)
(* byte values, a C pointer is a record that is either NULL or carries a   *)
(* string, and everything the handler emits (the call of the previous      *)
(* hook, each ereport) is appended to the trace `events` in program order. *)
(* ereport(ERROR) does not return: the handler stops there.                *)
(***************************************************************************)
EXTENDS Integers, Sequences, FiniteSets

\* ------------------------------------------------------------------ bounds
MaxPwdLen == 3
MaxUserLen == 2
MaxMinLength == 1

\* 'A', 'a', '1', '!'
PwdAlphabet == {65, 97, 49, 33}
\* 'A', 'a'
UserAlphabet == {65, 97}

SeqsUpTo(A, n) == UNION {[1..k -> A] : k \in 0..n}

\* ------------------------------------------------------------ C pointers
NULL == [isnull |-> TRUE, s |-> <<>>]
Ptr(str) == [isnull |-> FALSE, s |-> str]

Passwords == SeqsUpTo(PwdAlphabet, MaxPwdLen)
Usernames == {NULL} \cup {Ptr(u) : u \in SeqsUpTo(UserAlphabet, MaxUserLen)}

PasswordTypes == {"PASSWORD_TYPE_PLAINTEXT", "PASSWORD_TYPE_MD5", "PASSWORD_TYPE_SCRAM_SHA_256"}

\* What the server hands over as shadow_pass: any plaintext, or for the
\* hashed types a stored verifier (here a short string that would break
\* the rules if it were taken for a plaintext).
ShadowPasswords(password_type) ==
    IF password_type = "PASSWORD_TYPE_PLAINTEXT"
    THEN {NULL} \cup {Ptr(p) : p \in Passwords}
    ELSE {NULL, Ptr(<<97>>)}

\* ------------------------------------------------------------- <ctype.h>
isupper(c) == c \in 65..90
islower(c) == c \in 97..122
isdigit(c) == c \in 48..57

tolower_identity(c) == c
tolower(c) == IF isupper(c) THEN c + 32 ELSE c

strlen(str) == Len(str)

\* strstr(haystack, needle) != NULL
strstr(haystack, needle) ==
    \E i \in 1..(Len(haystack) + 1) :
        /\ i + Len(needle) - 1 <= Len(haystack)
        /\ \A j \in 1..Len(needle) : haystack[i + j - 1] = needle[j]

LowerStr(str) == [i \in 1..Len(str) |-> tolower(str[i])]

\* ---------------------------------------------------------------- ereport
Ereport(level, msg, detail, args) ==
    [src |-> "pg_passwordguard", level |-> level, msg |-> msg, detail |-> detail, args |-> args]

ErrMsg == "password does not meet complexity requirements"

PrevCall == [src |-> "prev_check_password_hook", level |-> "CALL", msg |-> "", detail |-> "", args |-> <<>>]
PrevError == [src |-> "prev_check_password_hook", level |-> "ERROR", msg |-> "", detail |-> "", args |-> <<>>]

\* Character classification loop: which class each byte falls in.
ClassOf_NoSpecial(c) ==
    IF isupper(c) THEN "upper"
    ELSE IF isdigit(c) THEN "digit"
    ELSE "lower"
ClassOf(c) ==
    IF isupper(c) THEN "upper"
    ELSE IF islower(c) THEN "lower"
    ELSE IF isdigit(c) THEN "digit"
    ELSE "special"

Has(password, class) == \E i \in 1..Len(password) : ClassOf(password[i]) = class

\* Minimum length check: the report it makes, if any.
LengthCheck_Le(len, g) ==
    IF len <= g.min_length
    THEN IF g.log_only
         THEN <<Ereport("WARNING", "pg_passwordguard: password too short (len=%d, min=%d)", "",
                        <<len, g.min_length>>)>>
         ELSE <<Ereport("ERROR", ErrMsg, "Password must be at least %d characters long.",
                        <<g.min_length>>)>>
    ELSE <<>>
LengthCheck(len, g) ==
    IF len < g.min_length
    THEN IF g.log_only
         THEN <<Ereport("WARNING", "pg_passwordguard: password too short (len=%d, min=%d)", "",
                        <<len, g.min_length>>)>>
         ELSE <<Ereport("ERROR", ErrMsg, "Password must be at least %d characters long.",
                        <<g.min_length>>)>>
    ELSE <<>>

UpperCheck(password, g) ==
    IF g.require_upper /\ ~Has(password, "upper")
    THEN IF g.log_only
         THEN <<Ereport("WARNING", "pg_passwordguard: missing uppercase letter", "", <<>>)>>
         ELSE <<Ereport("ERROR", ErrMsg, "Password must contain at least one uppercase letter.", <<>>)>>
    ELSE <<>>

LowerCheck_NeedsUpperFlag(password, g) ==
    IF g.require_upper /\ g.require_lower /\ ~Has(password, "lower")
    THEN IF g.log_only
         THEN <<Ereport("WARNING", "pg_passwordguard: missing lowercase letter", "", <<>>)>>
         ELSE <<Ereport("ERROR", ErrMsg, "Password must contain at least one lowercase letter.", <<>>)>>
    ELSE <<>>
LowerCheck(password, g) ==
    IF g.require_lower /\ ~Has(password, "lower")
    THEN IF g.log_only
         THEN <<Ereport("WARNING", "pg_passwordguard: missing lowercase letter", "", <<>>)>>
         ELSE <<Ereport("ERROR", ErrMsg, "Password must contain at least one lowercase letter.", <<>>)>>
    ELSE <<>>

DigitCheck(password, g) ==
    IF g.require_digit /\ ~Has(password, "digit")
    THEN IF g.log_only
         THEN <<Ereport("WARNING", "pg_passwordguard: missing digit", "", <<>>)>>
         ELSE <<Ereport("ERROR", ErrMsg, "Password must contain at least one digit.", <<>>)>>
    ELSE <<>>

SpecialCheck_AlwaysError(password, g) ==
    IF g.require_special /\ ~Has(password, "special")
    THEN <<Ereport("ERROR", ErrMsg, "Password must contain at least one special character.", <<>>)>>
    ELSE <<>>
SpecialCheck(password, g) ==
    IF g.require_special /\ ~Has(password, "special")
    THEN IF g.log_only
         THEN <<Ereport("WARNING", "pg_passwordguard: missing special character", "", <<>>)>>
         ELSE <<Ereport("ERROR", ErrMsg, "Password must contain at least one special character.", <<>>)>>
    ELSE <<>>

UsernameCheck(username, password, g) ==
    IF g.reject_username /\ ~username.isnull
    THEN IF strstr(LowerStr(password), LowerStr(username.s))
         THEN IF g.log_only
              THEN <<Ereport("WARNING", "pg_passwordguard: password contains username", "", <<>>)>>
              ELSE <<Ereport("ERROR", ErrMsg, "Password must not contain the username.", <<>>)>>
         ELSE <<>>
    ELSE <<>>

\* ereport(ERROR) leaves the function: nothing after the first ERROR runs.
UntilError(reports) ==
    IF \E i \in 1..Len(reports) : reports[i].level = "ERROR"
    THEN SubSeq(reports, 1,
                CHOOSE i \in 1..Len(reports) :
                    /\ reports[i].level = "ERROR"
                    /\ \A j \in 1..(i - 1) : reports[j].level # "ERROR")
    ELSE reports

\* The rule blocks after the length check, in program order.
ClassAndUserChecks_DigitFirst(username, password, g) ==
    UntilError(DigitCheck(password, g) \o UpperCheck(password, g) \o LowerCheck(password, g)
               \o SpecialCheck(password, g) \o UsernameCheck(username, password, g))
ClassAndUserChecks(username, password, g) ==
    UntilError(UpperCheck(password, g) \o LowerCheck(password, g) \o DigitCheck(password, g)
               \o SpecialCheck(password, g) \o UsernameCheck(username, password, g))

\* Everything from `password = shadow_pass` on: the length block ends the
\* function (ERROR, or WARNING followed by return), otherwise the rest runs.
RuleReports_NoReturn(username, password, g) ==
    UntilError(LengthCheck(strlen(password), g) \o ClassAndUserChecks(username, password, g))
RuleReports(username, password, g) ==
    IF LengthCheck(strlen(password), g) # <<>>
    THEN LengthCheck(strlen(password), g)
    ELSE ClassAndUserChecks(username, password, g)

\* The handler after the previous hook has returned.
OwnEvents_NoTypeCheck(username, shadow_pass, password_type, g) ==
    IF shadow_pass.isnull THEN <<>> ELSE RuleReports(username, shadow_pass.s, g)
OwnEvents(username, shadow_pass, password_type, g) ==
    IF password_type # "PASSWORD_TYPE_PLAINTEXT"
    THEN <<Ereport("DEBUG1", "pg_passwordguard: skipping non-plaintext password", "", <<>>)>>
    ELSE IF shadow_pass.isnull
         THEN <<>>
         ELSE RuleReports(username, shadow_pass.s, g)

\* The whole handler: the previous hook first (it may raise), then our own part.
HandlerTrace_PrevLast(prev, prevRaises, username, shadow_pass, password_type, g) ==
    IF prev # "NULL"
    THEN UntilError(OwnEvents(username, shadow_pass, password_type, g)
                    \o <<PrevCall>> \o (IF prevRaises THEN <<PrevError>> ELSE <<>>))
    ELSE OwnEvents(username, shadow_pass, password_type, g)
HandlerTrace(prev, prevRaises, username, shadow_pass, password_type, g) ==
    IF prev # "NULL"
    THEN IF prevRaises
         THEN <<PrevCall, PrevError>>
         ELSE <<PrevCall>> \o OwnEvents(username, shadow_pass, password_type, g)
    ELSE OwnEvents(username, shadow_pass, password_type, g)

\* ------------------------------------------------------------------ state
VARIABLES
    check_password_hook,
    prev_check_password_hook,
    pg_passwordguard_min_length,
    pg_passwordguard_require_upper,
    pg_passwordguard_require_lower,
    pg_passwordguard_require_digit,
    pg_passwordguard_require_special,
    pg_passwordguard_reject_username,
    pg_passwordguard_log_only,
    pc,
    username,
    shadow_pass,
    password_type,
    prev_args,
    events

gucs == <<pg_passwordguard_min_length, pg_passwordguard_require_upper,
          pg_passwordguard_require_lower, pg_passwordguard_require_digit,
          pg_passwordguard_require_special, pg_passwordguard_reject_username,
          pg_passwordguard_log_only>>
hooks == <<check_password_hook, prev_check_password_hook>>
call == <<username, shadow_pass, password_type, prev_args, events>>
vars == <<hooks, gucs, pc, call>>

Gucs ==
    [min_length |-> pg_passwordguard_min_length,
     require_upper |-> pg_passwordguard_require_upper,
     require_lower |-> pg_passwordguard_require_lower,
     require_digit |-> pg_passwordguard_require_digit,
     require_special |-> pg_passwordguard_require_special,
     reject_username |-> pg_passwordguard_reject_username,
     log_only |-> pg_passwordguard_log_only]

DefaultMinLength == 12

NoCall ==
    /\ username = NULL
    /\ shadow_pass = NULL
    /\ password_type = "PASSWORD_TYPE_PLAINTEXT"
    /\ prev_args = <<>>
    /\ events = <<>>

\* The library is not loaded yet: the statics hold their initialisers and
\* check_password_hook is whatever another module left there.
Init ==
    /\ check_password_hook \in {"NULL", "other_hook"}
    /\ prev_check_password_hook = "NULL"
    /\ pg_passwordguard_min_length = DefaultMinLength
    /\ pg_passwordguard_require_upper = TRUE
    /\ pg_passwordguard_require_lower = TRUE
    /\ pg_passwordguard_require_digit = TRUE
    /\ pg_passwordguard_require_special = TRUE
    /\ pg_passwordguard_reject_username = TRUE
    /\ pg_passwordguard_log_only = FALSE
    /\ pc = "unloaded"
    /\ NoCall

PG_init ==
    /\ pc = "unloaded"
    /\ pg_passwordguard_min_length' = DefaultMinLength
    /\ pg_passwordguard_require_upper' = TRUE
    /\ pg_passwordguard_require_lower' = TRUE
    /\ pg_passwordguard_require_digit' = TRUE
    /\ pg_passwordguard_require_special' = TRUE
    /\ pg_passwordguard_reject_username' = TRUE
    /\ pg_passwordguard_log_only' = FALSE
    /\ prev_check_password_hook' = check_password_hook
    /\ check_password_hook' = "pg_passwordguard_check"
    /\ pc' = "idle"
    /\ UNCHANGED call

\* SET pg_passwordguard.<name> = <value>, between two statements.
SetMinLength ==
    /\ pc = "idle"
    /\ \E n \in (0..MaxMinLength) \cup {DefaultMinLength} : pg_passwordguard_min_length' = n
    /\ UNCHANGED <<hooks, pc, call, pg_passwordguard_require_upper, pg_passwordguard_require_lower,
                   pg_passwordguard_require_digit, pg_passwordguard_require_special,
                   pg_passwordguard_reject_username, pg_passwordguard_log_only>>

SetRequireUpper ==
    /\ pc = "idle"
    /\ pg_passwordguard_require_upper' = ~pg_passwordguard_require_upper
    /\ UNCHANGED <<hooks, pc, call, pg_passwordguard_min_length, pg_passwordguard_require_lower,
                   pg_passwordguard_require_digit, pg_passwordguard_require_special,
                   pg_passwordguard_reject_username, pg_passwordguard_log_only>>

SetRequireLower ==
    /\ pc = "idle"
    /\ pg_passwordguard_require_lower' = ~pg_passwordguard_require_lower
    /\ UNCHANGED <<hooks, pc, call, pg_passwordguard_min_length, pg_passwordguard_require_upper,
                   pg_passwordguard_require_digit, pg_passwordguard_require_special,
                   pg_passwordguard_reject_username, pg_passwordguard_log_only>>

SetRequireDigit ==
    /\ pc = "idle"
    /\ pg_passwordguard_require_digit' = ~pg_passwordguard_require_digit
    /\ UNCHANGED <<hooks, pc, call, pg_passwordguard_min_length, pg_passwordguard_require_upper,
                   pg_passwordguard_require_lower, pg_passwordguard_require_special,
                   pg_passwordguard_reject_username, pg_passwordguard_log_only>>

SetRequireSpecial ==
    /\ pc = "idle"
    /\ pg_passwordguard_require_special' = ~pg_passwordguard_require_special
    /\ UNCHANGED <<hooks, pc, call, pg_passwordguard_min_length, pg_passwordguard_require_upper,
                   pg_passwordguard_require_lower, pg_passwordguard_require_digit,
                   pg_passwordguard_reject_username, pg_passwordguard_log_only>>

SetRejectUsername ==
    /\ pc = "idle"
    /\ pg_passwordguard_reject_username' = ~pg_passwordguard_reject_username
    /\ UNCHANGED <<hooks, pc, call, pg_passwordguard_min_length, pg_passwordguard_require_upper,
                   pg_passwordguard_require_lower, pg_passwordguard_require_digit,
                   pg_passwordguard_require_special, pg_passwordguard_log_only>>

SetLogOnly ==
    /\ pc = "idle"
    /\ pg_passwordguard_log_only' = ~pg_passwordguard_log_only
    /\ UNCHANGED <<hooks, pc, call, pg_passwordguard_min_length, pg_passwordguard_require_upper,
                   pg_passwordguard_require_lower, pg_passwordguard_require_digit,
                   pg_passwordguard_require_special, pg_passwordguard_reject_username>>

\* The server calls check_password_hook for a CREATE/ALTER ROLE ... PASSWORD.
pg_passwordguard_check ==
    /\ pc = "idle"
    /\ check_password_hook = "pg_passwordguard_check"
    /\ \E u \in Usernames, t \in PasswordTypes, prevRaises \in BOOLEAN :
         \E sp \in ShadowPasswords(t) :
            /\ prevRaises => prev_check_password_hook # "NULL"
            /\ username' = u
            /\ shadow_pass' = sp
            /\ password_type' = t
            /\ prev_args' = IF prev_check_password_hook # "NULL"
                            THEN <<[username |-> u, shadow_pass |-> sp, password_type |-> t]>>
                            ELSE <<>>
            /\ events' = HandlerTrace(prev_check_password_hook, prevRaises, u, sp, t, Gucs)
            /\ pc' = IF \E i \in 1..Len(events') : events'[i].level = "ERROR"
                     THEN "aborted" ELSE "returned"
    /\ UNCHANGED <<hooks, gucs>>

\* The statement is over (committed, or rolled back after the ERROR).
StatementEnd ==
    /\ pc \in {"returned", "aborted"}
    /\ pc' = "idle"
    /\ username' = NULL
    /\ shadow_pass' = NULL
    /\ password_type' = "PASSWORD_TYPE_PLAINTEXT"
    /\ prev_args' = <<>>
    /\ events' = <<>>
    /\ UNCHANGED <<hooks, gucs>>

Next ==
    \/ PG_init
    \/ SetMinLength
    \/ SetRequireUpper
    \/ SetRequireLower
    \/ SetRequireDigit
    \/ SetRequireSpecial
    \/ SetRejectUsername
    \/ SetLogOnly
    \/ pg_passwordguard_check
    \/ StatementEnd

Spec == Init /\ [][Next]_vars

TypeOK ==
    /\ pc \in {"unloaded", "idle", "returned", "aborted"}
    /\ check_password_hook \in {"NULL", "other_hook", "pg_passwordguard_check"}
    /\ prev_check_password_hook \in {"NULL", "other_hook"}
    /\ pg_passwordguard_min_length \in 0..DefaultMinLength
    /\ username \in Usernames
    /\ password_type \in PasswordTypes

\* ------------------------------------------------- reading a finished call
Done == pc \in {"returned", "aborted"}

PrevRaised == \E i \in 1..Len(events) : events[i] = PrevError

IsOwnReport(e) == e.src = "pg_passwordguard" /\ e.level \in {"WARNING", "ERROR"}
OwnReportsOf(evs) == SelectSeq(evs, IsOwnReport)
OwnReports == OwnReportsOf(events)

KindOf(e) ==
    IF e.level = "WARNING"
    THEN CASE e.msg = "pg_passwordguard: password too short (len=%d, min=%d)" -> "TooShort"
           [] e.msg = "pg_passwordguard: missing uppercase letter" -> "MissingUppercase"
           [] e.msg = "pg_passwordguard: missing lowercase letter" -> "MissingLowercase"
           [] e.msg = "pg_passwordguard: missing digit" -> "MissingDigit"
           [] e.msg = "pg_passwordguard: missing special character" -> "MissingSpecial"
           [] e.msg = "pg_passwordguard: password contains username" -> "ContainsUsername"
           [] OTHER -> "Unknown"
    ELSE CASE e.detail = "Password must be at least %d characters long." -> "TooShort"
           [] e.detail = "Password must contain at least one uppercase letter." -> "MissingUppercase"
           [] e.detail = "Password must contain at least one lowercase letter." -> "MissingLowercase"
           [] e.detail = "Password must contain at least one digit." -> "MissingDigit"
           [] e.detail = "Password must contain at least one special character." -> "MissingSpecial"
           [] e.detail = "Password must not contain the username." -> "ContainsUsername"
           [] OTHER -> "Unknown"

Rank(kind) ==
    CASE kind = "TooShort" -> 1
      [] kind = "MissingUppercase" -> 2
      [] kind = "MissingLowercase" -> 3
      [] kind = "MissingDigit" -> 4
      [] kind = "MissingSpecial" -> 5
      [] kind = "ContainsUsername" -> 6
      [] OTHER -> 7

KindsOf(evs) == LET own == OwnReportsOf(evs) IN {KindOf(own[i]) : i \in 1..Len(own)}
ReportedKinds == KindsOf(events)
CountOf(kind) ==
    LET own == OwnReports IN Cardinality({i \in 1..Len(own) : KindOf(own[i]) = kind})

\* A call that got as far as the rules: a plaintext, non-null password and
\* no error from the previous hook.
Plain ==
    /\ Done
    /\ password_type = "PASSWORD_TYPE_PLAINTEXT"
    /\ ~shadow_pass.isnull
    /\ ~PrevRaised

\* The rules as the claims word them, on the arguments of the call.
Pwd == shadow_pass.s
Fold(c) == IF c \in 65..90 THEN c + 32 ELSE c
Occurs(u, p) ==
    \E k \in 0..(Len(p) - Len(u)) : \A j \in 1..Len(u) : Fold(p[k + j]) = Fold(u[j])

V_TooShort == Len(Pwd) < pg_passwordguard_min_length
V_Upper == pg_passwordguard_require_upper /\ \A i \in 1..Len(Pwd) : Pwd[i] \notin 65..90
V_Lower == pg_passwordguard_require_lower /\ \A i \in 1..Len(Pwd) : Pwd[i] \notin 97..122
V_Digit == pg_passwordguard_require_digit /\ \A i \in 1..Len(Pwd) : Pwd[i] \notin 48..57
V_Special ==
    pg_passwordguard_require_special
    /\ \A i \in 1..Len(Pwd) : Pwd[i] \in (65..90) \cup (97..122) \cup (48..57)
V_User == pg_passwordguard_reject_username /\ ~username.isnull /\ Occurs(username.s, Pwd)

ViolatedKinds ==
    {k \in {"TooShort", "MissingUppercase", "MissingLowercase", "MissingDigit",
            "MissingSpecial", "ContainsUsername"} :
        \/ k = "TooShort" /\ V_TooShort
        \/ k = "MissingUppercase" /\ V_Upper
        \/ k = "MissingLowercase" /\ V_Lower
        \/ k = "MissingDigit" /\ V_Digit
        \/ k = "MissingSpecial" /\ V_Special
        \/ k = "ContainsUsername" /\ V_User}

\* ------------------------------------------------------------------ claims

\* C1 (as stated): in log-only mode the reported violations are the complete
\* set of violated enabled rules, also when the password is too short.
C1_Original == (Plain /\ pg_passwordguard_log_only) => ReportedKinds = ViolatedKinds

\* C1 (amended): a too-short password gets exactly the one length report and
\* no other rule is reported; a password that is long enough gets, in
\* log-only mode, a warning for every violated enabled rule and no other.
C1_LengthShortCircuits ==
    Plain =>
        /\ V_TooShort => (Len(OwnReports) = 1 /\ KindOf(OwnReports[1]) = "TooShort")
        /\ (~V_TooShort /\ pg_passwordguard_log_only) => ReportedKinds = ViolatedKinds

C1_Witness ==
    /\ Plain
    /\ pg_passwordguard_log_only
    /\ V_TooShort
    /\ V_Upper
    /\ V_User
    /\ ReportedKinds = {"TooShort"}
    /\ pc = "returned"

\* C2: with reject_username on, a null or empty username never produces a
\* ContainsUsername report.
C2_EmptyUsernameBypass ==
    (Done /\ pg_passwordguard_reject_username /\ (username.isnull \/ username.s = <<>>))
        => "ContainsUsername" \notin ReportedKinds

\* C3: in enforcing mode a plaintext password is rejected with an ERROR
\* exactly when it violates an enabled rule (too short, a required ASCII
\* class absent, or the non-null username occurring in it, letter case
\* ignored); otherwise nothing is reported and the handler returns.
C3_EnforcingRejectsIffViolated ==
    (Plain /\ ~pg_passwordguard_log_only) =>
        /\ (\E i \in 1..Len(OwnReports) : OwnReports[i].level = "ERROR") <=> ViolatedKinds # {}
        /\ pc = "aborted" <=> ViolatedKinds # {}
        /\ ViolatedKinds = {} => OwnReports = <<>>

C3_Witness ==
    /\ Plain
    /\ ~pg_passwordguard_log_only
    /\ pg_passwordguard_min_length = 1
    /\ pg_passwordguard_require_upper
    /\ pg_passwordguard_require_lower
    /\ pg_passwordguard_require_special
    /\ pg_passwordguard_reject_username
    /\ ~username.isnull
    /\ username.s # <<>>
    /\ ViolatedKinds = {}
    /\ pc = "returned"
    /\ events = <<>>

\* C4: in log-only mode the handler raises no ERROR of its own and returns;
\* every report is a WARNING and every reported violation has exactly one.
C4_LogOnlyNeverBlocks ==
    (Done /\ pg_passwordguard_log_only) =>
        /\ \A i \in 1..Len(OwnReports) : OwnReports[i].level = "WARNING"
        /\ ~PrevRaised => pc = "returned"
        /\ \A k \in ReportedKinds : CountOf(k) = 1

C4_Witness ==
    /\ Plain
    /\ pg_passwordguard_log_only
    /\ pc = "returned"
    /\ Len(OwnReports) >= 3

\* C5: a null password, or a password that is not plaintext, gets no warning
\* and no error from this module.
C5_NoPlaintextNoRule ==
    (Done /\ (shadow_pass.isnull \/ password_type # "PASSWORD_TYPE_PLAINTEXT")) =>
        /\ OwnReports = <<>>
        /\ ~PrevRaised => pc = "returned"

C5_Witness ==
    /\ Done
    /\ password_type = "PASSWORD_TYPE_MD5"
    /\ ~shadow_pass.isnull
    /\ Len(shadow_pass.s) < pg_passwordguard_min_length
    /\ ~pg_passwordguard_log_only
    /\ pc = "returned"
    /\ Len(events) = 1
    /\ events[1].level = "DEBUG1"

\* C6 (as stated): no TooShort report when the password is long enough;
\* otherwise exactly one, carrying the actual and the required length.
C6_Original ==
    Plain =>
        /\ ~V_TooShort => "TooShort" \notin ReportedKinds
        /\ V_TooShort =>
              /\ CountOf("TooShort") = 1
              /\ \A i \in 1..Len(OwnReports) :
                    KindOf(OwnReports[i]) = "TooShort" =>
                        OwnReports[i].args = <<Len(Pwd), pg_passwordguard_min_length>>

\* C6 (amended): no TooShort report when the password is long enough;
\* otherwise exactly one: the log-only WARNING carries the actual and the
\* required length, the enforcing ERROR carries the required length only.
C6_LengthRule ==
    Plain =>
        /\ ~V_TooShort => "TooShort" \notin ReportedKinds
        /\ V_TooShort =>
              /\ CountOf("TooShort") = 1
              /\ \A i \in 1..Len(OwnReports) :
                    KindOf(OwnReports[i]) = "TooShort" =>
                        OwnReports[i].args =
                            IF pg_passwordguard_log_only
                            THEN <<Len(Pwd), pg_passwordguard_min_length>>
                            ELSE <<pg_passwordguard_min_length>>

C6_Witness ==
    /\ Plain
    /\ ~pg_passwordguard_log_only
    /\ Len(Pwd) = 3
    /\ pg_passwordguard_min_length = DefaultMinLength
    /\ pc = "aborted"
    /\ Len(OwnReports) = 1
    /\ OwnReports[1].args = <<DefaultMinLength>>

\* What the same call reports under another configuration.
KindsUnder(g) ==
    KindsOf(HandlerTrace(prev_check_password_hook, FALSE, username, shadow_pass, password_type, g))

FlagIndependent ==
    /\ pg_passwordguard_require_upper =>
          KindsUnder([Gucs EXCEPT !.require_upper = FALSE]) = ReportedKinds \ {"MissingUppercase"}
    /\ pg_passwordguard_require_lower =>
          KindsUnder([Gucs EXCEPT !.require_lower = FALSE]) = ReportedKinds \ {"MissingLowercase"}
    /\ pg_passwordguard_require_digit =>
          KindsUnder([Gucs EXCEPT !.require_digit = FALSE]) = ReportedKinds \ {"MissingDigit"}
    /\ pg_passwordguard_require_special =>
          KindsUnder([Gucs EXCEPT !.require_special = FALSE]) = ReportedKinds \ {"MissingSpecial"}

\* C7 (as stated): switching one require_* flag off removes exactly its
\* Missing* report and changes the presence of no other kind.
C7_Original == Plain => FlagIndependent

\* C7 (amended): the same, in log-only mode.
C7_FlagIndependenceLogOnly == (Plain /\ pg_passwordguard_log_only) => FlagIndependent

C7_Witness ==
    /\ Plain
    /\ pg_passwordguard_log_only
    /\ pg_passwordguard_require_upper
    /\ {"MissingUppercase", "MissingLowercase"} \subseteq ReportedKinds
    /\ KindsUnder([Gucs EXCEPT !.require_upper = FALSE]) = ReportedKinds \ {"MissingUppercase"}

NamedUser == pg_passwordguard_reject_username /\ ~username.isnull /\ username.s # <<>>

\* C8 (as stated): with reject_username on and a non-empty username,
\* ContainsUsername is reported exactly when the lowercased username occurs
\* in the lowercased password; with reject_username off it is never reported.
C8_Original ==
    Plain =>
        /\ NamedUser => ("ContainsUsername" \in ReportedKinds <=> Occurs(username.s, Pwd))
        /\ ~pg_passwordguard_reject_username => "ContainsUsername" \notin ReportedKinds

\* The username block is reached: the password is long enough and, in
\* enforcing mode, no character-class rule has raised its ERROR.
UsernameBlockReached ==
    /\ ~V_TooShort
    /\ pg_passwordguard_log_only \/ ~(V_Upper \/ V_Lower \/ V_Digit \/ V_Special)

\* C8 (amended): the same, provided the check reaches the username block;
\* when it does not, ContainsUsername is not reported.
C8_UsernameCaseInsensitive ==
    Plain =>
        /\ NamedUser =>
              ("ContainsUsername" \in ReportedKinds
                  <=> (Occurs(username.s, Pwd) /\ UsernameBlockReached))
        /\ ~pg_passwordguard_reject_username => "ContainsUsername" \notin ReportedKinds

C8_Witness ==
    /\ Plain
    /\ NamedUser
    /\ username.s = <<65, 97>>
    /\ Pwd = <<49, 97, 65>>
    /\ "ContainsUsername" \in ReportedKinds

\* C9: reports come in the order length, uppercase, lowercase, digit,
\* special, username, each kind at most once; in enforcing mode the single
\* ERROR names the first violated enabled rule and nothing else is reported.
C9_FixedOrder ==
    Done =>
        LET own == OwnReports
            ranks == [i \in 1..Len(own) |-> Rank(KindOf(own[i]))]
        IN  /\ \A i, j \in 1..Len(own) : i < j => ranks[i] < ranks[j]
            /\ \A i \in 1..Len(own) : ranks[i] <= 6
            /\ (Plain /\ ~pg_passwordguard_log_only /\ ViolatedKinds # {}) =>
                  /\ Len(own) = 1
                  /\ own[1].level = "ERROR"
                  /\ KindOf(own[1]) \in ViolatedKinds
                  /\ \A k \in ViolatedKinds : ranks[1] <= Rank(k)
            /\ pg_passwordguard_log_only => \A i \in 1..Len(own) : own[i].level = "WARNING"

C9_Witness ==
    /\ Plain
    /\ ~pg_passwordguard_log_only
    /\ {"MissingLowercase", "MissingDigit", "ContainsUsername"} \subseteq ViolatedKinds
    /\ "MissingUppercase" \notin ViolatedKinds
    /\ "TooShort" \notin ViolatedKinds
    /\ ReportedKinds = {"MissingLowercase"}

\* C10: the previous hook, when there is one, is called exactly once, first,
\* with the arguments of the call, also for a null or non-plaintext
\* password; when it raises, nothing of this module runs.
C10_HookChaining ==
    /\ pc # "unloaded" =>
          (check_password_hook = "pg_passwordguard_check"
           /\ prev_check_password_hook # "pg_passwordguard_check")
    /\ Done =>
          IF prev_check_password_hook # "NULL"
          THEN /\ Len(events) >= 1
               /\ events[1] = PrevCall
               /\ Cardinality({i \in 1..Len(events) : events[i] = PrevCall}) = 1
               /\ prev_args = <<[username |-> username, shadow_pass |-> shadow_pass,
                                 password_type |-> password_type]>>
               /\ PrevRaised => (events = <<PrevCall, PrevError>> /\ pc = "aborted")
          ELSE /\ \A i \in 1..Len(events) : events[i].src = "pg_passwordguard"
               /\ prev_args = <<>>

C10_Witness ==
    /\ Done
    /\ prev_check_password_hook = "other_hook"
    /\ password_type = "PASSWORD_TYPE_SCRAM_SHA_256"
    /\ events[1] = PrevCall
    /\ Len(events) = 2
    /\ events[2].level = "DEBUG1"
====
